---- MODULE Spec2Model ----
(***************************************************************************)
(* A model of the 2D tile-map editor (mm2205fc3s/MapEditerFor2D).          *)
(*                                                                         *)
(* Two variants of the editor are modelled side by side:                   *)
(*   "json": src/mapediter/mapediter.py, which persists the map as         *)
(*           {"map_data": [[tile name, ...], ...]};                        *)
(*   "txt" : src/mapediter/mapediter_R8_2_11_21_45.py.py, which persists   *)
(*           one Python list literal of tile indices per line.             *)
(* A session is one run of the program; Restart ends it and constructs a   *)
(* new one over the file the previous sessions left behind.                *)
(***************************************************************************)
EXTENDS Integers, Sequences, FiniteSets, TLC

VARIABLES
    variant,    \* which of the two programs runs: "json" or "txt"
    imgs,       \* ImageManager.imgs: tile names in discovery (insertion) order
    img_keys,   \* ImageManager.img_keys: sorted(imgs.keys())
    img_idx,    \* ImageManager._img_idx / _image_id: the active tile index
    grid_list,  \* MapData.grid_list: a list of rows, each a list of indices
    start_pos,  \* TempDrawManager._start_pos: None or (col, row)
    goal_pos,   \* TempDrawManager._goal_pos: None or (col, row)
    grid_show,  \* GridConfig.grid_show
    file,       \* the map file on disk (PathConfig.map / grid_list_path)
    error,      \* "none", or the uncaught exception that ended the session
    effects     \* what the last command did, in order (writes and sounds)

vars == <<variant, imgs, img_keys, img_idx, grid_list, start_pos, goal_pos,
          grid_show, file, error, effects>>

----------------------------------------------------------------------------
(* Configuration (WindowConfig, GridConfig).  MasterConfig.load_from_json    *)
(* reads the window size from config.json; the model takes a small window,  *)
(* two cells wide and one and a half cells high.                            *)

\* WindowConfig.aspect, in pixels
aspect == <<40, 30>>

\* GridConfig.grid_size: the side of a cell, in pixels
grid_size == 20

\* GridConfig.grid_show
grid_show_default == TRUE

----------------------------------------------------------------------------
(* Python values *)

\* Python's None for an optional (col, row) tuple
None == <<>>

\* `x is not None`
IsNotNone(pos) == pos # None

\* truth value of None or of a tuple: a tuple is true iff it is not empty,
\* so (0, 0) is true
Truthy(pos) == Len(pos) > 0

\* whether s[i] succeeds for a Python list s of length n: negative i counts
\* from the end, anything outside -n .. n-1 raises IndexError
PyIndexOk(n, i) == (-n <= i) /\ (i < n)

\* s[i] for a Python list s, where PyIndexOk(Len(s), i)
PyAt(s, i) == IF i >= 0 THEN s[i + 1] ELSE s[Len(s) + i + 1]

\* range(a, b) as a sequence
PyRange(a, b) == [k \in 1..(IF b > a THEN b - a ELSE 0) |-> a + k - 1]

Min(a, b) == IF a <= b THEN a ELSE b

Max(a, b) == IF a >= b THEN a ELSE b

Range(s) == {s[k] : k \in 1..Len(s)}

----------------------------------------------------------------------------
(* The tile catalog *)

\* every tile name of the model, in lexicographic order (Python's str order)
AllNames == <<"floor", "wall", "water">>

\* sorted(list(self.imgs.keys()))
Sorted(names) == SelectSeq(AllNames, LAMBDA n : n \in Range(names))

\* the image folders a session may find: imgs in glob order
Catalogs == {<<"floor">>, <<"wall">>, <<"wall", "floor">>}

\* the img_idx / image_id setter: keep idx unless indexing raises IndexError
ImgIdxSetter(keys, idx) == IF PyIndexOk(Len(keys), idx) THEN idx ELSE 0

----------------------------------------------------------------------------
(* MapData: the grid *)

\* MapData.__init__: cols = aspect[0] // grid_size, rows = aspect[1] // grid_size
ConfigCols == aspect[1] \div grid_size

ConfigRows == aspect[2] \div grid_size

\* MapData.make_grid_list((cols, rows)): rows lists of cols zeros
make_grid_list(cols, rows) == [y \in 1..rows |-> [x \in 1..cols |-> 0]]

\* MapData.write_cell(pos, value) on grid: the grid after the call and the
\* exception it raised ("none" when it returned).  len(self.grid_list[0])
\* raises IndexError on a grid without rows, and the assignment raises it
\* when row y_index is shorter than row 0.
write_cell(grid, pos, value) ==
    LET x_index == pos[1]
        y_index == pos[2]
    IN  IF Len(grid) = 0
        THEN [grid |-> grid, err |-> "IndexError"]
        ELSE IF 0 <= x_index /\ x_index < Len(grid[1])
                /\ 0 <= y_index /\ y_index < Len(grid)
             THEN IF x_index < Len(grid[y_index + 1])
                  THEN [grid |-> [grid EXCEPT ![y_index + 1][x_index + 1] = value],
                        err |-> "none"]
                  ELSE [grid |-> grid, err |-> "IndexError"]
             ELSE [grid |-> grid, err |-> "none"]

\* RectCells with range(min, max) in place of range(min, max + 1) on the
\* columns: the last column of the rectangle is left out
RectCellsExclusive(s, g) ==
    LET xs == PyRange(Min(s[1], g[1]), Max(s[1], g[1]))
        ys == PyRange(Min(s[2], g[2]), Max(s[2], g[2]) + 1)
    IN  [k \in 1..(Len(xs) * Len(ys)) |->
            <<xs[((k - 1) \div Len(ys)) + 1], ys[((k - 1) % Len(ys)) + 1]>>]

\* the cells update_grid_list visits, in the order of its two loops:
\* for i in range(min(s_x, g_x), max(s_x, g_x) + 1):
\*     for j in range(min(s_y, g_y), max(s_y, g_y) + 1):
RectCells(s, g) ==
    LET xs == PyRange(Min(s[1], g[1]), Max(s[1], g[1]) + 1)
        ys == PyRange(Min(s[2], g[2]), Max(s[2], g[2]) + 1)
    IN  [k \in 1..(Len(xs) * Len(ys)) |->
            <<xs[((k - 1) \div Len(ys)) + 1], ys[((k - 1) % Len(ys)) + 1]>>]

\* the loop body, from the k-th cell on: the first exception ends the loop
\* and keeps the writes made before it
RECURSIVE WriteCells(_, _, _, _)
WriteCells(grid, cells, k, value) ==
    IF k > Len(cells)
    THEN [grid |-> grid, err |-> "none"]
    ELSE LET w == write_cell(grid, cells[k], value)
         IN  IF w.err # "none" THEN w ELSE WriteCells(w.grid, cells, k + 1, value)

\* the guard of MapEditer.update_grid_list (json) and update_glid_list (txt)
SelectionComplete(v, s, g) ==
    IF v = "json" THEN IsNotNone(s) /\ IsNotNone(g)
                  ELSE Truthy(s) /\ Truthy(g)

\* update_grid_list with a guard that asks for one anchor only and paints
\* the cell of the anchor that is set
update_grid_list_OneAnchor(v, grid, s, g, idx) ==
    IF IsNotNone(s) \/ IsNotNone(g)
    THEN LET a == IF IsNotNone(s) THEN s ELSE g
             b == IF IsNotNone(g) THEN g ELSE s
             w == WriteCells(grid, RectCells(a, b), 1, idx)
         IN  [grid |-> w.grid, err |-> w.err, confirm |-> (w.err = "none")]
    ELSE [grid |-> grid, err |-> "none", confirm |-> FALSE]

\* update_grid_list that paints tile 0, the index every session starts with,
\* whatever the active index is
update_grid_list_FirstIndex(v, grid, s, g, idx) ==
    IF SelectionComplete(v, s, g)
    THEN LET w == WriteCells(grid, RectCells(s, g), 1, 0)
         IN  [grid |-> w.grid, err |-> w.err, confirm |-> (w.err = "none")]
    ELSE [grid |-> grid, err |-> "none", confirm |-> FALSE]

\* MapEditer.update_grid_list: the grid after it, the exception it raised,
\* and whether it reached audio_manager.play("confirm")
update_grid_list(v, grid, s, g, idx) ==
    IF SelectionComplete(v, s, g)
    THEN LET w == WriteCells(grid, RectCells(s, g), 1, idx)
         IN  [grid |-> w.grid, err |-> w.err, confirm |-> (w.err = "none")]
    ELSE [grid |-> grid, err |-> "none", confirm |-> FALSE]

----------------------------------------------------------------------------
(* PosCalculater *)

\* division that rounds toward zero, as C's / does
FloorDivTruncating(a, b) == IF a >= 0 THEN a \div b ELSE 0 - ((0 - a) \div b)

\* Python's // on integers with a positive divisor: floor division
FloorDiv(a, b) == a \div b

PosCalculater_pos2grid_index(pos, size) ==
    <<FloorDiv(pos[1], size), FloorDiv(pos[2], size)>>

PosCalculater_grid_index2pos(pos, size) == <<pos[1] * size, pos[2] * size>>

\* PosCalculater.pos2pos: the pixel of the top-left corner of the cell
PosCalculater_pos2pos(pos, size) ==
    PosCalculater_grid_index2pos(PosCalculater_pos2grid_index(pos, size), size)

----------------------------------------------------------------------------
(* The index-literal text format ("txt"): a line is a sequence of characters *)

Digits == <<"0", "1", "2", "3", "4", "5", "6", "7", "8", "9">>

IsDigit(c) == \E d \in 1..10 : Digits[d] = c

DigitVal(c) == (CHOOSE d \in 1..10 : Digits[d] = c) - 1

\* str(n) for n >= 0
RECURSIVE NatChars(_)
NatChars(n) ==
    IF n < 10 THEN <<Digits[n + 1]>>
              ELSE NatChars(n \div 10) \o <<Digits[(n % 10) + 1]>>

\* str(n) that loses the sign of a negative int
IntCharsNoSign(n) == IF n < 0 THEN NatChars(-n) ELSE NatChars(n)

\* str(n) for an int
IntChars(n) == IF n < 0 THEN <<"-">> \o NatChars(-n) ELSE NatChars(n)

\* ", ".join of the elements from the k-th on
RECURSIVE JoinInts(_, _)
JoinInts(row, k) ==
    IF k > Len(row) THEN <<>>
    ELSE IF k = Len(row) THEN IntChars(row[k])
    ELSE IntChars(row[k]) \o <<",", " ">> \o JoinInts(row, k + 1)

\* f"{row}": str() of a list of ints, as save_grid_list writes it
RowChars(row) == <<"[">> \o JoinInts(row, 1) \o <<"]">>

\* str.strip(), for blanks
RECURSIVE LStrip(_)
LStrip(cs) == IF Len(cs) > 0 /\ cs[1] = " " THEN LStrip(Tail(cs)) ELSE cs

RECURSIVE RStrip(_)
RStrip(cs) ==
    IF Len(cs) > 0 /\ cs[Len(cs)] = " " THEN RStrip(SubSeq(cs, 1, Len(cs) - 1))
                                         ELSE cs

Strip(cs) == RStrip(LStrip(cs))

\* cs cut at every ",": the pieces, in order
RECURSIVE SplitComma(_, _)
SplitComma(cs, piece) ==
    IF cs = <<>> THEN <<piece>>
    ELSE IF cs[1] = "," THEN <<piece>> \o SplitComma(Tail(cs), <<>>)
    ELSE SplitComma(Tail(cs), Append(piece, cs[1]))

\* the value of a run of digits
RECURSIVE DigitsValue(_, _)
DigitsValue(cs, acc) ==
    IF cs = <<>> THEN acc ELSE DigitsValue(Tail(cs), 10 * acc + DigitVal(cs[1]))

\* whether cs is a decimal integer literal, with an optional sign and, as in
\* Python 3, no leading zero before another digit
IsIntLiteral(cs) ==
    LET body == IF Len(cs) > 0 /\ cs[1] = "-" THEN Tail(cs) ELSE cs
    IN  /\ Len(body) > 0
        /\ \A k \in 1..Len(body) : IsDigit(body[k])
        /\ (Len(body) > 1 => body[1] # "0")

IntValue(cs) ==
    IF cs[1] = "-" THEN 0 - DigitsValue(Tail(cs), 0) ELSE DigitsValue(cs, 0)

\* ast.literal_eval(line.strip()) for the lines of the model: a list display
\* of integer literals evaluates to the list, and a blank, cut or otherwise
\* malformed line raises (ok = FALSE)
literal_eval(line) ==
    LET s == Strip(line)
        inner == Strip(SubSeq(s, 2, Len(s) - 1))
        parts == SplitComma(inner, <<>>)
        items == [k \in 1..Len(parts) |-> Strip(parts[k])]
    IN  IF Len(s) < 2 \/ s[1] # "[" \/ s[Len(s)] # "]"
        THEN [ok |-> FALSE, row |-> <<>>]
        ELSE IF inner = <<>>
        THEN [ok |-> TRUE, row |-> <<>>]
        ELSE IF \A k \in 1..Len(items) : IsIntLiteral(items[k])
        THEN [ok |-> TRUE, row |-> [k \in 1..Len(items) |-> IntValue(items[k])]]
        ELSE [ok |-> FALSE, row |-> <<>>]

----------------------------------------------------------------------------
(* The map file *)

NoFile == [kind |-> "missing", body |-> <<>>]

\* a text file: body is its lines
TxtFile(lines) == [kind |-> "txt", body |-> lines]

\* a JSON document {"map_data": body}: body is a list of lists of names
JsonFile(map_data) == [kind |-> "json", body |-> map_data]

\* a file json.load cannot read
BadJsonFile == [kind |-> "badjson", body |-> <<>>]

\* MapData.save_grid_list (txt): the file it writes
save_grid_list_txt(grid) ==
    TxtFile([y \in 1..Len(grid) |-> RowChars(grid[y])])

\* ParseLines that stops at the first line it cannot parse and hands over the
\* rows parsed before it
RECURSIVE ParseLinesKeepParsed(_, _, _)
ParseLinesKeepParsed(lines, k, new_grid) ==
    IF k > Len(lines)
    THEN [ok |-> TRUE, grid |-> new_grid]
    ELSE LET r == literal_eval(lines[k])
         IN  IF r.ok THEN ParseLinesKeepParsed(lines, k + 1, Append(new_grid, r.row))
                     ELSE [ok |-> TRUE, grid |-> new_grid]

\* MapData.load_grid_list (txt): new_grid after the lines from the k-th on,
\* or the exception that ends the loop
RECURSIVE ParseLines(_, _, _)
ParseLines(lines, k, new_grid) ==
    IF k > Len(lines)
    THEN [ok |-> TRUE, grid |-> new_grid]
    ELSE LET r == literal_eval(lines[k])
         IN  IF r.ok THEN ParseLines(lines, k + 1, Append(new_grid, r.row))
                     ELSE [ok |-> FALSE, grid |-> new_grid]

\* load_grid_list (txt) that starts with an empty map when the file is missing
load_grid_list_txt_EmptyOnMissing(grid, f) ==
    IF f.kind = "missing"
    THEN <<>>
    ELSE IF f.kind # "txt"
    THEN grid
    ELSE LET r == ParseLines(f.body, 1, <<>>)
         IN  IF r.ok THEN r.grid ELSE grid

\* MapData.load_grid_list (txt): the grid after the call.  Both except
\* clauses leave self.grid_list as it was; nothing is raised to the caller.
load_grid_list_txt(grid, f) ==
    IF f.kind # "txt"
    THEN grid
    ELSE LET r == ParseLines(f.body, 1, <<>>)
         IN  IF r.ok THEN r.grid ELSE grid

\* whether every index of the grid can be looked up in img_keys
Translatable(grid, keys) ==
    \A y \in 1..Len(grid) : \A x \in 1..Len(grid[y]) :
        PyIndexOk(Len(keys), grid[y][x])

\* MapData.save_grid_list (json): [img_keys[idx] for idx in row] per row
translated_map(grid, keys) ==
    [y \in 1..Len(grid) |-> [x \in 1..Len(grid[y]) |-> PyAt(keys, grid[y][x])]]

\* the lookup with -1, not 0, for a name that is not in img_keys
NameToIndexOrMinusOne(keys, tile_name) ==
    IF tile_name \in Range(keys)
    THEN (CHOOSE k \in 1..Len(keys) :
            keys[k] = tile_name /\ \A j \in 1..(k - 1) : keys[j] # tile_name) - 1
    ELSE -1

\* img_keys.index(tile_name) if tile_name in img_keys else 0
NameToIndex(keys, tile_name) ==
    IF tile_name \in Range(keys)
    THEN (CHOOSE k \in 1..Len(keys) :
            keys[k] = tile_name /\ \A j \in 1..(k - 1) : keys[j] # tile_name) - 1
    ELSE 0

\* MapData.load_grid_list (json): the list comprehension over raw_map
load_grid_list_json(raw_map, keys) ==
    [y \in 1..Len(raw_map) |->
        [x \in 1..Len(raw_map[y]) |-> NameToIndex(keys, raw_map[y][x])]]

----------------------------------------------------------------------------
(* The editor session *)

\* the files a first session may find on disk, besides none at all
ExtTxtFiles ==
    { TxtFile(<<>>),
      TxtFile(<<RowChars(<<12, 0>>)>>),
      TxtFile(<<RowChars(<<0>>), RowChars(<<>>)>>),
      TxtFile(<<RowChars(<<1, 1>>), <<"[", "0", ",", " ">>>>),
      TxtFile(<<<<>>, RowChars(<<1, 1>>)>>),
      TxtFile(<<RowChars(<<2, 2>>), <<"x">>, RowChars(<<2, 2>>)>>) }

ExtJsonFiles ==
    { JsonFile(<<>>),
      JsonFile(<<<<"water", "wall">>>>),
      JsonFile(<<<<"floor">>, <<>>>>),
      BadJsonFile }

ExtFiles(v) == IF v = "json" THEN ExtJsonFiles ELSE ExtTxtFiles

\* pygame.mouse.get_pos(): a pixel of the window; on each axis the first and
\* the last pixel and the two pixels on either side of the first cell border
MousePositions ==
    {0, grid_size - 1, grid_size, aspect[1] - 1}
        \X {0, grid_size - 1, grid_size, aspect[2] - 1}

\* event.key - pygame.K_1 for the keys K_0 .. K_9
NumberKeyOffsets == -1..8

\* MapEditer.__init__ over the file on disk
Construct(v, catalog, f) ==
    /\ variant' = v
    /\ imgs' = catalog
    /\ img_keys' = Sorted(catalog)
    /\ img_idx' = 0
    /\ grid_list' = make_grid_list(ConfigCols, ConfigRows)
    /\ start_pos' = None
    /\ goal_pos' = None
    /\ grid_show' = grid_show_default
    /\ file' = f
    /\ error' = "none"
    /\ effects' = <<>>

InitOf(v) ==
    /\ variant = v
    /\ imgs \in Catalogs
    /\ img_keys = Sorted(imgs)
    /\ img_idx = 0
    /\ grid_list = make_grid_list(ConfigCols, ConfigRows)
    /\ start_pos = None
    /\ goal_pos = None
    /\ grid_show = grid_show_default
    /\ file \in {NoFile} \cup ExtFiles(variant)
    /\ error = "none"
    /\ effects = <<>>

\* the event loop handles events only while no exception has ended it
Running == error = "none"

\* MapEditer.select_img(idx)
select_img(idx) ==
    /\ Running
    /\ img_idx' = ImgIdxSetter(img_keys, idx)
    /\ effects' = <<"set_idx", "play:switch">>
    /\ UNCHANGED <<variant, imgs, img_keys, grid_list, start_pos, goal_pos,
                   grid_show, file, error>>

\* handle_keydown, K_0 .. K_9: select_img(event.key - K_1)
SelectImg == \E idx \in NumberKeyOffsets : select_img(idx)

\* set_startpos_temp that also paints the cell it stages
SetStartPosPaints ==
    /\ Running
    /\ \E pos \in MousePositions :
          /\ start_pos' = PosCalculater_pos2grid_index(pos, grid_size)
          /\ grid_list' = write_cell(grid_list, start_pos', img_idx).grid
    /\ effects' = <<"set_start">>
    /\ UNCHANGED <<variant, imgs, img_keys, img_idx, goal_pos, grid_show, file,
                   error>>

\* handle_mousedown, BUTTON_LEFT: set_startpos_temp(pygame.mouse.get_pos())
SetStartPos ==
    /\ Running
    /\ \E pos \in MousePositions :
          start_pos' = PosCalculater_pos2grid_index(pos, grid_size)
    /\ effects' = <<"set_start">>
    /\ UNCHANGED <<variant, imgs, img_keys, img_idx, grid_list, goal_pos,
                   grid_show, file, error>>

\* handle_mousedown, BUTTON_RIGHT: set_goalpos_temp(pygame.mouse.get_pos())
SetGoalPos ==
    /\ Running
    /\ \E pos \in MousePositions :
          goal_pos' = PosCalculater_pos2grid_index(pos, grid_size)
    /\ effects' = <<"set_goal">>
    /\ UNCHANGED <<variant, imgs, img_keys, img_idx, grid_list, start_pos,
                   grid_show, file, error>>

\* resetpos_temp that plays "cancel" whenever sound is true
resetpos_effects_Always(sound, s, g) ==
    IF sound
    THEN <<"play:cancel", "reset_pos">>
    ELSE <<"reset_pos">>

\* MapEditer.resetpos_temp(sound): what it does, in order
resetpos_effects(sound, s, g) ==
    IF sound /\ ~(s = None \/ g = None)
    THEN <<"play:cancel", "reset_pos">>
    ELSE <<"reset_pos">>

\* handle_mousedown, BUTTON_X1: resetpos_temp()
ResetPos ==
    /\ Running
    /\ effects' = resetpos_effects(TRUE, start_pos, goal_pos)
    /\ start_pos' = None
    /\ goal_pos' = None
    /\ UNCHANGED <<variant, imgs, img_keys, img_idx, grid_list, grid_show,
                   file, error>>

\* handle_keydown K_RETURN and handle_mousedown BUTTON_X2:
\* update_grid_list() and then resetpos_temp(sound=False); an exception out
\* of update_grid_list skips the rest and ends the session
CommitEdit ==
    /\ Running
    /\ LET u == update_grid_list(variant, grid_list, start_pos, goal_pos, img_idx)
       IN  /\ grid_list' = u.grid
           /\ error' = u.err
           /\ IF u.err = "none"
              THEN /\ start_pos' = None
                   /\ goal_pos' = None
                   /\ effects' =
                        (IF u.confirm THEN <<"write_cells", "play:confirm">>
                                      ELSE <<>>)
                        \o resetpos_effects(FALSE, start_pos, goal_pos)
              ELSE /\ UNCHANGED <<start_pos, goal_pos>>
                   /\ effects' = <<"write_cells">>
    /\ UNCHANGED <<variant, imgs, img_keys, img_idx, grid_show, file>>

\* toggle_show_grid that hides the overlay whatever it was
toggle_show_grid_Hide(show) == FALSE

\* MapEditer.toggle_show_grid: the new value of grid_show
toggle_show_grid(show) == ~show

\* handle_mousedown, BUTTON_MIDDLE: toggle_show_grid()
ToggleShowGrid ==
    /\ Running
    /\ grid_show' = toggle_show_grid(grid_show)
    /\ effects' = <<"toggle_grid">>
    /\ UNCHANGED <<variant, imgs, img_keys, img_idx, grid_list, start_pos,
                   goal_pos, file, error>>

\* save_map that also drops the staged selection
SaveMapClearsSelection ==
    /\ Running
    /\ file' = IF variant = "json"
               THEN JsonFile(translated_map(grid_list, img_keys))
               ELSE save_grid_list_txt(grid_list)
    /\ effects' = <<"write_file", "play:save">>
    /\ start_pos' = None
    /\ goal_pos' = None
    /\ UNCHANGED <<variant, imgs, img_keys, img_idx, grid_list, grid_show,
                   error>>

\* handle_keydown, K_s: save_map()
SaveMap ==
    /\ Running
    /\ IF variant = "json" /\ ~Translatable(grid_list, img_keys)
       THEN /\ error' = "IndexError"
            /\ effects' = <<>>
            /\ UNCHANGED file
       ELSE /\ file' = IF variant = "json"
                       THEN JsonFile(translated_map(grid_list, img_keys))
                       ELSE save_grid_list_txt(grid_list)
            /\ effects' = <<"write_file", "play:save">>
            /\ UNCHANGED error
    /\ UNCHANGED <<variant, imgs, img_keys, img_idx, grid_list, start_pos,
                   goal_pos, grid_show>>

\* MapData.load_grid_list (json): the exception open() or json.load raises
load_error_json(f) ==
    IF f.kind = "missing" THEN "FileNotFoundError"
    ELSE IF f.kind = "json" THEN "none"
    ELSE "JSONDecodeError"

\* handle_keydown, K_r: load_map()
LoadMap ==
    /\ Running
    /\ IF variant = "json"
       THEN IF load_error_json(file) = "none"
            THEN /\ grid_list' = load_grid_list_json(file.body, img_keys)
                 /\ effects' = <<"replace_grid", "play:load">>
                 /\ UNCHANGED error
            ELSE /\ error' = load_error_json(file)
                 /\ effects' = <<>>
                 /\ UNCHANGED grid_list
       ELSE /\ grid_list' = load_grid_list_txt(grid_list, file)
            /\ effects' =
                 (IF file.kind = "txt" /\ ParseLines(file.body, 1, <<>>).ok
                  THEN <<"replace_grid">> ELSE <<>>) \o <<"play:load">>
            /\ UNCHANGED error
    /\ UNCHANGED <<variant, imgs, img_keys, img_idx, start_pos, goal_pos,
                   grid_show, file>>

\* the process ends (QUIT, K_ESCAPE or an uncaught exception) and the program
\* is started again, over the same file and possibly another image folder
Restart ==
    \E catalog \in Catalogs : Construct(variant, catalog, file)

Next ==
    \/ SelectImg
    \/ SetStartPos
    \/ SetGoalPos
    \/ ResetPos
    \/ CommitEdit
    \/ ToggleShowGrid
    \/ SaveMap
    \/ LoadMap
    \/ Restart

\* the editor of mapediter.py
SpecJson == InitOf("json") /\ [][Next]_vars

\* the editor of mapediter_R8_2_11_21_45.py.py
SpecTxt == InitOf("txt") /\ [][Next]_vars

----------------------------------------------------------------------------
(* Single operations on drawn inputs: commit and write_cell on grids,       *)
(* selections and tile indices wider than the scaled-down window gives      *)

\* the columns and rows of the drawn grids
PureCols == 4

PureRows == 3

\* a grid in which neighbouring cells differ
PaintedGrid(cols, rows) == [y \in 1..rows |-> [x \in 1..cols |-> (x + y) % 3]]

PureGrids ==
    { <<>>, make_grid_list(PureCols, PureRows), PaintedGrid(PureCols, PureRows) }

\* cells on the grid and one step off it on every side
PureCells == ((-1)..PureCols) \X ((-1)..PureRows)

\* a session with three tiles, any active index the setter accepts, a drawn
\* grid and a drawn selection
InitPure(anchors) ==
    /\ variant \in {"json", "txt"}
    /\ imgs = AllNames
    /\ img_keys = Sorted(imgs)
    /\ img_idx \in {i \in (-Len(AllNames))..Len(AllNames) :
                        ImgIdxSetter(AllNames, i) = i}
    /\ grid_list \in PureGrids
    /\ start_pos \in anchors
    /\ goal_pos \in anchors
    /\ grid_show = grid_show_default
    /\ file = NoFile
    /\ error = "none"
    /\ effects = <<>>

\* commit on every drawn grid, selection and tile index
SpecCommit == InitPure({None} \cup PureCells) /\ [][CommitEdit]_vars

\* one call self.map_data.write_cell(pos, self.image_manager.img_idx)
write_cell_call(pos) ==
    /\ Running
    /\ effects = <<>>
    /\ LET w == write_cell(grid_list, pos, img_idx)
       IN  /\ grid_list' = w.grid
           /\ error' = w.err
    /\ effects' = <<"write_cell">>
    /\ UNCHANGED <<variant, imgs, img_keys, img_idx, start_pos, goal_pos,
                   grid_show, file>>

WriteCellOnce == \E pos \in PureCells : write_cell_call(pos)

\* write_cell on every drawn grid, position and value
SpecWriteCell == InitPure({None}) /\ [][WriteCellOnce]_vars

\* a session in which both anchors have been set while tile 0, the index of a
\* new session, was active
InitStaged ==
    /\ InitPure(PureCells)
    /\ img_idx = 0

\* tile keys and commits after the anchors were set
SpecRepaint == InitStaged /\ [][SelectImg \/ CommitEdit]_vars

\* one call self.resetpos_temp(sound)
resetpos_temp_call(sound) ==
    /\ Running
    /\ effects' = resetpos_effects(sound, start_pos, goal_pos)
    /\ start_pos' = None
    /\ goal_pos' = None
    /\ UNCHANGED <<variant, imgs, img_keys, img_idx, grid_list, grid_show,
                   file, error>>

ResetPosTemp == \E sound \in BOOLEAN : resetpos_temp_call(sound)

\* resetpos_temp on every drawn selection, with and without sound
SpecReset == InitPure({None} \cup PureCells) /\ [][ResetPosTemp]_vars

----------------------------------------------------------------------------
(* ImageManager.get_image on drawn catalogs and arguments.  An image is     *)
(* named by the tile it was loaded for.                                     *)

\* ImageManager.notexture_img, the fallback image
notexture_img == "notexture_img"

\* Python's None where an image is expected
NoImage == "None"

\* every order in which glob may list some of the tile images
TileOrders ==
    UNION { {o \in [1..n -> Range(AllNames)] :
                \A i, j \in 1..n : i # j => o[i] # o[j]}
            : n \in 0..Len(AllNames) }

\* folder_path.glob("*.png"): notexture.png, which __init__ has loaded, is
\* among the files
ImageFolders ==
    {<<"notexture">> \o o : o \in TileOrders}
        \cup {o \o <<"notexture">> : o \in TileOrders}

\* ImageManager.load_images: the keys of self.imgs, in insertion order
load_images(folder) == SelectSeq(folder, LAMBDA name : name # "notexture")

\* get_image(key_or_idx) for an int: list(self.imgs.keys())[key_or_idx] in
\* mapediter.py and self.imgs[id] in the text variant, both in the order of
\* imgs, with notexture_img on IndexError
get_image_int(catalog, key_or_idx) ==
    IF PyIndexOk(Len(catalog), key_or_idx)
    THEN PyAt(catalog, key_or_idx)
    ELSE notexture_img

\* dict.get(key, default) on self.imgs
imgs_get(catalog, key, default) ==
    IF key \in Range(catalog) THEN key ELSE default

\* get_image(key_or_idx) for a str (mapediter.py):
\* self.imgs.get(key_or_idx, self.imgs.get("notexture"))
get_image_str(catalog, key_or_idx) ==
    imgs_get(catalog, key_or_idx, imgs_get(catalog, "notexture", NoImage))

\* the int arguments: every index of the largest catalog, negative ones and
\* one step past both ends
ResolveIndices == (-(Len(AllNames) + 1))..(Len(AllNames) + 1)

\* the str arguments: every tile name, the fallback's name and an unknown one
ResolveNames == Range(AllNames) \cup {"notexture", "lava"}

\* a session right after MapEditer.__init__, over any image folder
InitConstructed ==
    /\ variant \in {"json", "txt"}
    /\ imgs \in {load_images(folder) : folder \in ImageFolders}
    /\ img_keys = Sorted(imgs)
    /\ img_idx = 0
    /\ grid_list = make_grid_list(ConfigCols, ConfigRows)
    /\ start_pos = None
    /\ goal_pos = None
    /\ grid_show = grid_show_default
    /\ file = NoFile
    /\ error = "none"
    /\ effects = <<>>

\* one call self.image_manager.get_image(key_or_idx) with an int
get_image_int_call(key_or_idx) ==
    /\ Running
    /\ effects = <<>>
    /\ effects' = <<"get_image", get_image_int(imgs, key_or_idx)>>
    /\ UNCHANGED <<variant, imgs, img_keys, img_idx, grid_list, start_pos,
                   goal_pos, grid_show, file, error>>

\* one call self.image_manager.get_image(key_or_idx) with a str
get_image_str_call(key_or_idx) ==
    /\ Running
    /\ variant = "json"
    /\ effects = <<>>
    /\ effects' = <<"get_image", get_image_str(imgs, key_or_idx)>>
    /\ UNCHANGED <<variant, imgs, img_keys, img_idx, grid_list, start_pos,
                   goal_pos, grid_show, file, error>>

GetImageByIndex == \E i \in ResolveIndices : get_image_int_call(i)

GetImageByName == \E name \in ResolveNames : get_image_str_call(name)

\* get_image on every catalog and argument
SpecResolve == InitConstructed /\ [][GetImageByIndex \/ GetImageByName]_vars

----------------------------------------------------------------------------
(* PosCalculater.pos2pos on drawn pixels and cell sizes *)

\* pixel coordinates run from -SnapMax to SnapMax
SnapMax == 5

\* cell sizes run from 1 to MaxCellSize
MaxCellSize == 3

\* the drawn coordinates, and those of the pixel (47, 23)
SnapCoords == ((-SnapMax)..SnapMax) \cup {23, 47}

SnapPixels == SnapCoords \X SnapCoords

\* the drawn cell sizes, and the configured one
CellSizes == (1..MaxCellSize) \cup {grid_size}

\* one call self.cal_pos.pos2pos(pos, size); the call and what it returned
\* are kept in effects
pos2pos_call(pos, size) ==
    /\ Running
    /\ effects = <<>>
    /\ effects' = <<"pos2pos", pos, size, PosCalculater_pos2pos(pos, size)>>
    /\ UNCHANGED <<variant, imgs, img_keys, img_idx, grid_list, start_pos,
                   goal_pos, grid_show, file, error>>

Pos2Pos == \E pos \in SnapPixels : \E size \in CellSizes : pos2pos_call(pos, size)

\* pos2pos on every drawn pixel and cell size
SpecSnap == InitConstructed /\ [][Pos2Pos]_vars

----------------------------------------------------------------------------
(* Claims *)

\* a rows x cols array: every row as long as the first
IsRectangular(grid) == \A y \in 1..Len(grid) : Len(grid[y]) = Len(grid[1])

\* whether (col, row) lies in the inclusive rectangle spanned by s and g
InRect(s, g, col, row) ==
    /\ Min(s[1], g[1]) <= col /\ col <= Max(s[1], g[1])
    /\ Min(s[2], g[2]) <= row /\ row <= Max(s[2], g[2])

\* grid with t in the cells of the rectangle and every other cell as it was
FilledGrid(grid, s, g, t) ==
    [y \in 1..Len(grid) |->
        [x \in 1..Len(grid[y]) |->
            IF InRect(s, g, x - 1, y - 1) THEN t ELSE grid[y][x]]]

\* the cells (col, row) of grid that hold t
CellsHolding(grid, t) ==
    {c \in (0..(PureCols + 1)) \X (0..(PureRows + 1)) :
        /\ c[2] < Len(grid)
        /\ c[1] < Len(grid[c[2] + 1])
        /\ grid[c[2] + 1][c[1] + 1] = t}

\* the cells (col, row) in which two grids of one shape differ
CellsChanged(before, after) ==
    {c \in (0..(PureCols + 1)) \X (0..(PureRows + 1)) :
        /\ c[2] < Len(before)
        /\ c[1] < Len(before[c[2] + 1])
        /\ before[c[2] + 1][c[1] + 1] # after[c[2] + 1][c[1] + 1]}

\* C1: a commit with both anchors set, in any order and on or off the grid,
\* sets to the active tile index exactly the cells of the grid that lie in
\* the inclusive rectangle spanned by the anchors and leaves every other cell
\* as it was; with start = goal no cell but that one changes.
C1_CommitFillsRectangle ==
    [][ (IsNotNone(start_pos) /\ IsNotNone(goal_pos)
            /\ IsRectangular(grid_list) /\ CommitEdit)
        => /\ grid_list' = FilledGrid(grid_list, start_pos, goal_pos, img_idx)
           /\ (start_pos = goal_pos
                 => CellsChanged(grid_list, grid_list') \subseteq {start_pos})
      ]_vars

\* C1 witness: the rectangle (1,1)..(3,2) has been committed with index -1 on
\* a grid that held no -1: exactly its six cells hold -1.
C1_Witness ==
    /\ effects = <<"write_cells", "play:confirm", "reset_pos">>
    /\ CellsHolding(grid_list, -1) = (1..3) \X (1..2)

\* C2: a commit with the start anchor, the goal anchor or both absent leaves
\* the grid as it was and raises nothing, whatever the one anchor that is
\* set, the cell (0,0) included.
C2_IncompleteCommitKeepsGrid ==
    [][ ((start_pos = None \/ goal_pos = None) /\ CommitEdit)
        => (grid_list' = grid_list /\ error' = "none") ]_vars

\* C2 witness: a commit has run without confirming, on a painted grid.
C2_Witness ==
    /\ effects = <<"reset_pos">>
    /\ grid_list = PaintedGrid(PureCols, PureRows)
    /\ error = "none"

\* the position is outside [0, cols) x [0, rows) of the grid
OutOfGrid(grid, pos) ==
    LET rows == Len(grid)
        cols == IF rows = 0 THEN 0 ELSE Len(grid[1])
    IN  ~(0 <= pos[1] /\ pos[1] < cols /\ 0 <= pos[2] /\ pos[2] < rows)

\* C3: write_cell at a position outside the grid, negative positions
\* included, leaves every cell as it was and raises nothing.
C3_WriteOutsideIsHarmless ==
    [][ \A pos \in PureCells :
          (write_cell_call(pos) /\ OutOfGrid(grid_list, pos))
            => (grid_list' = grid_list /\ error' = "none") ]_vars

\* C4: every cell of the grid holds an index in [0, catalog size); no cell is
\* negative.
C4_CellsInCatalogRange ==
    \A y \in 1..Len(grid_list) : \A x \in 1..Len(grid_list[y]) :
        0 <= grid_list[y][x] /\ grid_list[y][x] < Len(img_keys)

\* C5: the grid has the rows and columns it was constructed with.
C5_DimensionsFixed ==
    /\ Len(grid_list) = ConfigRows
    /\ \A y \in 1..Len(grid_list) : Len(grid_list[y]) = ConfigCols

\* C6: after select_img(i) the active tile index is i when
\* 0 <= i < catalog size and 0 otherwise, negative i included.
C6_SelectClampsToZero ==
    [][ \A idx \in NumberKeyOffsets :
          select_img(idx)
            => img_idx' = (IF 0 <= idx /\ idx < Len(img_keys) THEN idx ELSE 0)
      ]_vars

\* the state right after a completed save
JustSaved == effects = <<"write_file", "play:save">>

\* the state right after a load that replaced the grid
JustLoaded == effects = <<"replace_grid", "play:load">>

\* C7: index-literal format: the file a save has written parses, and loading
\* it into a fresh grid gives the saved grid cell for cell; the catalog has no
\* part in it.
C7_TextRoundTrip ==
    (variant = "txt" /\ JustSaved)
      => /\ file.kind = "txt"
         /\ ParseLines(file.body, 1, <<>>).ok
         /\ load_grid_list_txt(make_grid_list(ConfigCols, ConfigRows), file)
              = grid_list

\* C7 witness: a grid holding a two-digit and a negative index has been saved.
C7_Witness ==
    /\ variant = "txt"
    /\ JustSaved
    /\ grid_list = <<<<12, -1>>>>

\* C8: name-mapped format: loading the file a save has written, under the
\* img_keys of the save, gives the saved grid cell for cell.
C8_JsonRoundTrip ==
    (variant = "json" /\ JustSaved)
      => /\ file.kind = "json"
         /\ load_grid_list_json(file.body, img_keys) = grid_list

\* C9: name-mapped load: the grid has the shape of the file's map_data, a name
\* that is in img_keys is loaded as its position in img_keys, a name that is
\* not is loaded as 0, and nothing is raised.
C9_NameMappedLoad ==
    (variant = "json" /\ JustLoaded)
      => /\ error = "none"
         /\ Len(grid_list) = Len(file.body)
         /\ \A y \in 1..Len(file.body) :
              /\ Len(grid_list[y]) = Len(file.body[y])
              /\ \A x \in 1..Len(file.body[y]) :
                   IF file.body[y][x] \in Range(img_keys)
                   THEN /\ 0 <= grid_list[y][x]
                        /\ grid_list[y][x] < Len(img_keys)
                        /\ img_keys[grid_list[y][x] + 1] = file.body[y][x]
                   ELSE grid_list[y][x] = 0

\* C9 witness: a file naming a tile that is not in the catalog and the tile at
\* position 1 has been loaded.
C9_Witness ==
    /\ variant = "json"
    /\ JustLoaded
    /\ img_keys = <<"floor", "wall">>
    /\ file.body = <<<<"water", "wall">>>>
    /\ grid_list = <<<<0, 1>>>>

C11_JsonLoadFailureNotFatal ==
    [][ (variant = "json" /\ file.kind # "json" /\ LoadMap)
        => (grid_list' = grid_list /\ error' = "none") ]_vars

\* some line of the file raises in literal_eval
HasBadLine(f) ==
    f.kind = "txt" /\ \E k \in 1..Len(f.body) : ~literal_eval(f.body[k]).ok

\* C12: index-literal load of a file with a line that does not parse, at any
\* position: the grid after the load is the grid before it, no row parsed
\* before the bad line is installed, and the session goes on.  (Stated by
\* contraposition: a step that changes the grid or ends the session is not
\* such a load.)
C12_BadLineKeepsGrid ==
    [][ (grid_list' # grid_list \/ error' # "none")
        => ~(variant = "txt" /\ HasBadLine(file) /\ LoadMap) ]_vars

\* C12 witness: a load has met a bad line between two good ones and an edited
\* grid, which is not the row parsed before the bad line, is still there.
C12_Witness ==
    /\ variant = "txt"
    /\ effects = <<"play:load">>
    /\ Len(file.body) = 3
    /\ literal_eval(file.body[1]).ok
    /\ ~literal_eval(file.body[2]).ok
    /\ literal_eval(file.body[3]).ok
    /\ grid_list = <<<<1, 0>>>>
    /\ error = "none"

\* C13: get_image(i) returns the i-th image of the catalog when
\* 0 <= i < size and the fallback image for every other i, negative i
\* included.
C13_ResolveByIndex ==
    [][ \A i \in ResolveIndices :
          get_image_int_call(i)
            => effects' = <<"get_image",
                            IF 0 <= i /\ i < Len(imgs) THEN imgs[i + 1]
                                                       ELSE notexture_img>>
      ]_vars

\* C14: get_image(name) returns the image of that name when the catalog has
\* one and the fallback image, never None, when it has none.
C14_ResolveByName ==
    [][ \A name \in ResolveNames :
          get_image_str_call(name)
            => effects' = <<"get_image",
                            IF name \in Range(imgs) THEN name
                                                    ELSE notexture_img>>
      ]_vars

\* C15: for every i with 0 <= i < size, get_image(i) returns the image whose
\* name is img_keys[i], whatever the order in which the images were found.
C15_IndexAndNameAgree ==
    [][ \A i \in ResolveIndices :
          (variant = "json" /\ 0 <= i /\ i < Len(img_keys)
              /\ get_image_int_call(i))
            => effects' = <<"get_image", img_keys[i + 1]>>
      ]_vars

\* the notifications among the effects of a command, in order
Notifications(e) ==
    SelectSeq(e, LAMBDA x : x \in {"play:confirm", "play:cancel", "play:switch",
                                    "play:save", "play:load"})

\* C16: a commit with both anchors set, whatever the rectangle, plays
\* "confirm" exactly once and nothing else; a commit with an anchor absent
\* plays nothing.
C16_CommitNotifies ==
    [][ CommitEdit
        => Notifications(effects') =
              (IF IsNotNone(start_pos) /\ IsNotNone(goal_pos)
               THEN <<"play:confirm">> ELSE <<>>) ]_vars

\* C17: a step that changes the grid is a commit or a load (or the start of
\* a new session), and never set_startpos_temp, set_goalpos_temp or
\* resetpos_temp, whatever the cell, on or off the grid.
C17_AnchorsLeaveGrid ==
    [][ grid_list' # grid_list
        => /\ ~(SetStartPos \/ SetGoalPos \/ ResetPos)
           /\ (CommitEdit \/ LoadMap \/ Restart) ]_vars

\* C17 witness: the start anchor has been set on a cell below the last row
\* of an edited grid.
C17_Witness ==
    /\ effects = <<"set_start">>
    /\ start_pos = <<0, ConfigRows>>
    /\ grid_list # make_grid_list(ConfigCols, ConfigRows)
    /\ Len(grid_list) = ConfigRows

\* C18: both anchors are absent initially and right after every commit and
\* every resetpos_temp, whatever the selection was before.
C18_AnchorsCleared ==
    /\ start_pos = None /\ goal_pos = None
    /\ [][ (CommitEdit \/ ResetPos)
            => (start_pos' = None /\ goal_pos' = None) ]_vars

Abs(n) == IF n < 0 THEN 0 - n ELSE n

\* the largest multiple of size that is <= c
LargestMultipleBelow(c, size) ==
    CHOOSE m \in (c - size + 1)..c :
        \E k \in (0 - Abs(c) - 1)..(Abs(c) + 1) : m = k * size

\* C19: pos2pos returns on each axis the largest multiple of the cell size
\* that is <= the coordinate, for negative coordinates too; it maps (47, 23)
\* with cell size 20 to (40, 20).
C19_SnapIsFloorMultiple ==
    /\ PosCalculater_pos2pos(<<47, 23>>, 20) = <<40, 20>>
    /\ (Len(effects) = 4 /\ effects[1] = "pos2pos")
          => effects[4] = <<LargestMultipleBelow(effects[2][1], effects[3]),
                            LargestMultipleBelow(effects[2][2], effects[3])>>

\* C19 witness: pos2pos has been applied to a pixel left of the window, with
\* the configured cell size.
C19_Witness ==
    /\ Len(effects) = 4
    /\ effects[2] = <<-1, 47>>
    /\ effects[3] = grid_size
    /\ effects[4] = <<0 - grid_size, 2 * grid_size>>

\* C20: toggle_show_grid applied to the flag it has just set gives back the
\* flag before it, and the step changes neither the grid, the anchors nor the
\* active tile index.
C20_ToggleTwiceIsIdentity ==
    [][ ToggleShowGrid
        => /\ grid_show' # grid_show
           /\ toggle_show_grid(grid_show') = grid_show
           /\ UNCHANGED <<grid_list, start_pos, goal_pos, img_idx>> ]_vars

\* C20 witness: the overlay has been toggled in a session with an edited
\* grid, a staged anchor and a tile other than the first selected.
C20_Witness ==
    /\ effects = <<"toggle_grid">>
    /\ IsNotNone(start_pos)
    /\ img_idx = 1
    /\ grid_list # make_grid_list(ConfigCols, ConfigRows)

\* C21: a name-mapped save translates only indices i with
\* 0 <= i < catalog size: every cell of the grid it saves is in that range.
C21_SaveTranslatesInRange ==
    [][ (variant = "json" /\ SaveMap)
        => \A y \in 1..Len(grid_list) : \A x \in 1..Len(grid_list[y]) :
              0 <= grid_list[y][x] /\ grid_list[y][x] < Len(img_keys) ]_vars

\* the state transition that the notification reports
TransitionOf(notification) ==
    CASE notification = "play:confirm" -> "write_cells"
      [] notification = "play:cancel"  -> "reset_pos"
      [] notification = "play:switch"  -> "set_idx"
      [] notification = "play:save"    -> "write_file"
      [] notification = "play:load"    -> "replace_grid"

\* C22: every notification of a command comes after the state transition it
\* reports: "confirm" after the cells are written, "cancel" after the anchors
\* are cleared, "switch" after the index is set, "save" after the file is
\* written, "load" after the grid is replaced from the file.
C22_NotifyAfterTransition ==
    \A k \in 1..Len(effects) :
        effects[k] \in {"play:confirm", "play:cancel", "play:switch",
                        "play:save", "play:load"}
          => \E j \in 1..(k - 1) : effects[j] = TransitionOf(effects[k])

\* C23: a commit with both anchors set raises nothing, on every grid a load
\* has installed.
C23_CommitNeverFails ==
    [][ (IsNotNone(start_pos) /\ IsNotNone(goal_pos) /\ CommitEdit)
        => error' = "none" ]_vars

\* C24: a commit paints the tile index that is active at the commit: every
\* cell of the grid in the rectangle holds it afterwards, whatever index was
\* active when the anchors were set.
C24_CommitUsesCurrentIndex ==
    [][ (IsNotNone(start_pos) /\ IsNotNone(goal_pos) /\ CommitEdit)
        => /\ Len(grid_list') = Len(grid_list)
           /\ \A y \in 1..Len(grid_list) : \A x \in 1..Len(grid_list[y]) :
                 InRect(start_pos, goal_pos, x - 1, y - 1)
                   => grid_list'[y][x] = img_idx ]_vars

\* C24 witness: the anchors were set while tile 0 was active, tile 2 was
\* selected after that, and the commit has painted the four cells of the
\* rectangle (1,0)..(2,1) of the all-zero grid with 2.
C24_Witness ==
    /\ effects = <<"write_cells", "play:confirm", "reset_pos">>
    /\ img_idx = 2
    /\ CellsHolding(grid_list, 2) = (1..2) \X (0..1)
    /\ Cardinality(CellsHolding(grid_list, 0)) = PureCols * PureRows - 4

\* C25: resetpos_temp(sound) plays "cancel" iff sound is true and both
\* anchors were set before the call, plays nothing else, and clears both
\* anchors in every case.
C25_CancelIffComplete ==
    [][ \A sound \in BOOLEAN :
          resetpos_temp_call(sound)
            => /\ Notifications(effects') =
                    (IF sound /\ IsNotNone(start_pos) /\ IsNotNone(goal_pos)
                     THEN <<"play:cancel">> ELSE <<>>)
               /\ start_pos' = None
               /\ goal_pos' = None ]_vars

\* C25 witness: a call has played "cancel" and cleared the anchors.
C25_Witness ==
    /\ Notifications(effects) = <<"play:cancel">>
    /\ start_pos = None
    /\ goal_pos = None
    /\ grid_list = PaintedGrid(PureCols, PureRows)

\* C26: a save changes neither a cell of the grid, an anchor, the active
\* tile index nor the overlay flag.  (Stated by contraposition: a step that
\* changes one of them is not a save.)
C26_SaveKeepsState ==
    [][ (grid_list' # grid_list \/ start_pos' # start_pos
            \/ goal_pos' # goal_pos \/ img_idx' # img_idx
            \/ grid_show' # grid_show)
        => ~SaveMap ]_vars

\* C26 witness: a save has run with both anchors staged, an edited grid, a
\* tile other than the first active and the overlay off, and the session
\* still runs, so the selection can be committed.
C26_Witness ==
    /\ JustSaved
    /\ IsNotNone(start_pos)
    /\ IsNotNone(goal_pos)
    /\ img_idx = 1
    /\ ~grid_show
    /\ grid_list # make_grid_list(ConfigCols, ConfigRows)
    /\ error = "none"

====
